---- MODULE Spec2Model ----
(***************************************************************************)
(* CoRe - Registo de Consulta Cardio-Renal (src/app.py).                   *)
(*                                                                         *)
(* A Streamlit session extracts a nested clinical record from a note via   *)
(* an external model, holds it for review, and on confirmation projects it *)
(* into two flat rows written to a spreadsheet: an upserted row in the     *)
(* sheet "Doentes" and an appended row in the sheet "Visitas_Análises".    *)
(*                                                                         *)
(* Python values are modelled as tagged tuples:                            *)
(*   None  -> <<"null">>          True/False -> <<"bool", TRUE/FALSE>>     *)
(*   int   -> <<"num", n>>        str        -> <<"str", s>>               *)
(*   list  -> <<"list", items>>                                            *)
(*   dict  -> <<"dict", pairs>>   pairs: the sequence of <<key, value>>    *)
(*                                in insertion order, keys unique          *)
(***************************************************************************)
EXTENDS Integers, Sequences, FiniteSets, TLC

VARIABLES
    session_state,  \* st.session_state: a function whose DOMAIN is the set of keys present
    sheets,         \* the spreadsheet: worksheet title -> sequence of rows (DOMAIN = existing worksheets)
    today,          \* date.today() as <<year, month, day>>
    last,           \* what the last script run did: handler, outcome, ordered call log, model reply
    nSaves,         \* number of "Guardar" clicks handled so far
    rec,            \* projection harness: the record handed to the row builders
    edits,          \* projection harness: number of edits applied to rec
    proj,           \* projection harness: results of the two row builders
    table,          \* upsert harness: rows of one worksheet
    hist            \* upsert harness: the calls made so far

vars == <<session_state, sheets, today, last, nSaves, rec, edits, proj, table, hist>>

appVars  == <<session_state, sheets, last, nSaves>>
projVars == <<rec, edits, proj>>
upsVars  == <<table, hist>>

----------------------------------------------------------------------------
(* Bounds of the model *)

\* "Guardar" clicks explored per run of the application
MaxSaves == 2
\* edits applied to the template record before it is projected
MaxEdits == 1
\* upsert calls explored in the upsert harness
MaxUpserts == 3

\* rows a worksheet may grow to in the provisioning harness
MaxRows == 2

----------------------------------------------------------------------------
(* Constants of the program *)

SHEET_DOENTES == "Doentes"
SHEET_VISITAS == "Visitas_Análises"
SHEET_EVENTOS == "Eventos"

HEADERS_DOENTES ==
    << "N_Processo", "Data_Nascimento", "Idade", "Sexo", "Localidade",
       "Profissao", "Frailty_CFS", "Referenciacao",
       "DM2", "Tabagismo", "HTA", "Dislipidemia", "Obesidade",
       "SAOS", "Sedentarismo", "HxFamiliar_DC",
       "DAP", "DPOC", "Doenca_hepatica", "HBP", "FA", "Outras_comorbilidades",
       "IC_FE_tipo", "IC_Etiologia", "IC_FEVE_atual_pct", "IC_FEVE_trajetoria",
       "DRC_Grau", "DRC_Albuminuria", "DRC_Etiologia",
       "Fenotipo_congestao",
       "POCUS_FE_pct", "POCUS_EE_ratio", "POCUS_LinhasB_N", "POCUS_VCI_mm",
       "RASi", "RASi_farmaco", "RASi_dose",
       "MRA", "MRA_farmaco", "MRA_dose",
       "iSGLT2", "iSGLT2_farmaco", "iSGLT2_dose",
       "GLP1RA", "GLP1RA_farmaco", "GLP1RA_dose",
       "Estatina", "Estatina_farmaco", "Estatina_dose",
       "Diuretico_ansa", "Diuretico_ansa_farmaco", "Diuretico_ansa_dose",
       "Diuretico_tiazida", "Diuretico_tiazida_farmaco", "Diuretico_tiazida_dose",
       "Acetazolamida", "Acetazolamida_farmaco", "Acetazolamida_dose",
       "BetaBloqueante", "BetaBloqueante_farmaco", "BetaBloqueante_dose",
       "Antiagregante", "Antiagregante_farmaco", "Antiagregante_dose",
       "Anticoagulante", "Anticoagulante_farmaco", "Anticoagulante_dose",
       "Ivabradina", "Ivabradina_farmaco", "Ivabradina_dose",
       "Data_ultima_consulta" >>

HEADERS_VISITAS ==
    << "N_Processo", "Data_consulta",
       "Ureia", "Creatinina", "Cistatina_C", "TFGe_CKD_EPI_CrCist",
       "RACu_mg_g", "RPC_mg_g", "Na_urinario",
       "Albumina", "ALT", "AST", "GGT", "Bilirrubina_total",
       "Na", "K", "Cl", "Ca", "P", "Mg",
       "PTH", "Vit_D",
       "NT_proBNP", "BNP", "CA125",
       "Hgb", "Leucocitos", "Plaquetas",
       "HCO3", "Ca_ionizado",
       "Sumario_urina",
       "NYHA", "CCS", "Ortopneia", "Bendopneia", "Edemas_MI",
       "Claudicacao_intermitente", "Palpitacoes",
       "Peso_kg", "Altura_m", "IMC", "TA_sist", "TA_diast", "FC", "SpO2" >>

HEADERS_EVENTOS ==
    << "N_Processo", "Data_evento", "Tipo_evento", "Causa_descricao", "Data_registo" >>

----------------------------------------------------------------------------
(* Python values *)

None     == <<"null">>
PyTrue   == <<"bool", TRUE>>
PyFalse  == <<"bool", FALSE>>
Num(n)   == <<"num", n>>
Str(s)   == <<"str", s>>
List(xs) == <<"list", xs>>
Dict(ps) == <<"dict", ps>>

EmptyDict == Dict(<< >>)

IsDict(v) == v[1] = "dict"
IsStr(v)  == v[1] = "str"

\* bool(v): Python truthiness
Truthy(v) ==
    CASE v[1] = "null" -> FALSE
      [] v[1] = "bool" -> v[2]
      [] v[1] = "num"  -> v[2] # 0
      [] v[1] = "str"  -> v[2] # ""
      [] v[1] = "list" -> Len(v[2]) > 0
      [] v[1] = "dict" -> Len(v[2]) > 0

\* a or b
PyOr(a, b) == IF Truthy(a) THEN a ELSE b

\* key in d
HasKey(d, k) == \E i \in 1..Len(d[2]) : d[2][i][1] = k

\* d[k], for a key that is present
Item(d, k) == d[2][CHOOSE i \in 1..Len(d[2]) : d[2][i][1] = k][2]

\* d.get(k, default)
GetOr(d, k, default) == IF HasKey(d, k) THEN Item(d, k) ELSE default

\* d.get(k)
Get(d, k) == GetOr(d, k, None)

\* str(v): lists and dicts occur only empty in the model's universe
PyStr(v) ==
    CASE v[1] = "null" -> "None"
      [] v[1] = "bool" -> (IF v[2] THEN "True" ELSE "False")
      [] v[1] = "num"  -> ToString(v[2])
      [] v[1] = "str"  -> v[2]
      [] v[1] = "list" -> "[]"
      [] v[1] = "dict" -> "{}"

----------------------------------------------------------------------------
(* Value helpers *)

\* val == True instead of val is True: the number 1 becomes "Sim", 0 becomes "Não"
sv_eq(val) ==
    IF val = None THEN ""
    ELSE IF val = PyTrue \/ val = Num(1) THEN "Sim"
    ELSE IF val = PyFalse \/ val = Num(0) THEN "Não"
    ELSE PyStr(val)

sv(val) ==
    IF val = None THEN ""
    ELSE IF val = PyTrue THEN "Sim"
    ELSE IF val = PyFalse THEN "Não"
    ELSE PyStr(val)

Pad2(n) == IF n < 10 THEN "0" \o ToString(n) ELSE ToString(n)

\* date.isoformat()
isoformat(d) == ToString(d[1]) \o "-" \o Pad2(d[2]) \o "-" \o Pad2(d[3])

\* The calendar dates the model's strings can denote
KnownDates == { <<1960, 3, 10>>, <<2024, 3, 9>>, <<2024, 3, 10>> }

\* datetime.strptime(s, "%Y-%m-%d").date(): the set of dates s denotes (empty: ValueError)
strptime(s) == { d \in KnownDates : isoformat(d) = s }

\* (m1, d1) < (m2, d2) on tuples
TupleLess(m1, d1, m2, d2) == m1 < m2 \/ (m1 = m2 /\ d1 < d2)

\* calculate_age: None on a non-string (TypeError) or an unparsable string (ValueError)
calculate_age(dob_str, now) ==
    IF ~IsStr(dob_str) \/ strptime(dob_str[2]) = {} THEN None
    ELSE LET dob == CHOOSE d \in strptime(dob_str[2]) : TRUE
         IN  Num(now[1] - dob[1]
                 - (IF TupleLess(now[2], now[3], dob[2], dob[3]) THEN 1 ELSE 0))

----------------------------------------------------------------------------
(* Row builders *)

\* The outcome of a call that may raise
Ok(r)    == [ok |-> TRUE,  row |-> r,     err |-> ""]
Raise(e) == [ok |-> FALSE, row |-> << >>, err |-> e]

\* The twelve medication classes in the order of lines 405-408
MED_CLASSES ==
    << "rasi", "mra", "isglt2", "glp1ra", "estatina", "diuretico_ansa",
       "diuretico_tiazida", "acetazolamida", "beta_bloqueante",
       "antiagregante", "anticoagulante", "ivabradina" >>

\* m = med.get(key) or {}
med_record(med, key) == PyOr(Get(med, key), EmptyDict)

\* med3 raises AttributeError when m is a truthy value without .get
med3_raises(med, key) == ~IsDict(med_record(med, key))

med3(med, key) ==
    LET m == med_record(med, key)
    IN  << sv(Get(m, "presente")), sv(Get(m, "farmaco")), sv(Get(m, "dose")) >>

RECURSIVE med_cells_upto(_, _)
med_cells_upto(med, n) ==
    IF n = 0 THEN << >>
    ELSE med_cells_upto(med, n - 1) \o med3(med, MED_CLASSES[n])

\* the cells of the classes in the key order of the mapping itself
RECURSIVE med_cells_by_keys(_, _)
med_cells_by_keys(med, n) ==
    IF n = 0 THEN << >>
    ELSE med_cells_by_keys(med, n - 1) \o med3(med, med[2][n][1])

\* iterating the mapping instead of naming the twelve classes
med_cells_iter(med) == med_cells_by_keys(med, Len(med[2]))

\* *med3("rasi"), *med3("mra"), ..., *med3("ivabradina")
med_cells(med) == med_cells_upto(med, Len(MED_CLASSES))

\* Whether build_doentes_row raises, and what; "" when it returns
doentes_error(extracted) ==
    IF ~IsDict(extracted) THEN "TypeError"
    ELSE IF ~HasKey(extracted, "doente") THEN "KeyError"
    ELSE LET d == Item(extracted, "doente") IN
         IF ~IsDict(d) THEN "AttributeError"
         ELSE IF \E g \in {"frcv", "comorbilidades", "ic", "drc", "pocus", "medicacao"} :
                     ~IsDict(GetOr(d, g, EmptyDict))
              THEN "AttributeError"
         ELSE IF \E i \in 1..Len(MED_CLASSES) :
                     med3_raises(GetOr(d, "medicacao", EmptyDict), MED_CLASSES[i])
              THEN "AttributeError"
         ELSE ""

\* the list returned by build_doentes_row, for a record on which it does not raise
doentes_cells(n_processo, extracted, now) ==
    LET d    == Item(extracted, "doente")
        frcv == GetOr(d, "frcv", EmptyDict)
        co   == GetOr(d, "comorbilidades", EmptyDict)
        ic   == GetOr(d, "ic", EmptyDict)
        drc  == GetOr(d, "drc", EmptyDict)
        poc  == GetOr(d, "pocus", EmptyDict)
        med  == GetOr(d, "medicacao", EmptyDict)
        age  == calculate_age(PyOr(Get(d, "data_nascimento"), Str("")), now)
    IN  << n_processo,
           sv(Get(d, "data_nascimento")), sv(age),
           sv(Get(d, "sexo")), sv(Get(d, "localidade")),
           sv(Get(d, "profissao")), sv(Get(d, "frailty_cfs")),
           sv(Get(d, "referenciacao")),
           sv(Get(frcv, "dm2")), sv(Get(frcv, "tabagismo")), sv(Get(frcv, "hta")),
           sv(Get(frcv, "dislipidemia")), sv(Get(frcv, "obesidade")),
           sv(Get(frcv, "saos")), sv(Get(frcv, "sedentarismo")), sv(Get(frcv, "hx_familiar_dc")),
           sv(Get(co, "dap")), sv(Get(co, "dpoc")), sv(Get(co, "doenca_hepatica")),
           sv(Get(co, "hbp")), sv(Get(co, "fa")), sv(Get(co, "outras")),
           sv(Get(ic, "tipo_fe")), sv(Get(ic, "etiologia")),
           sv(Get(ic, "feve_atual")), sv(Get(ic, "feve_trajetoria")),
           sv(Get(drc, "grau")), sv(Get(drc, "albuminuria")), sv(Get(drc, "etiologia")),
           sv(Get(d, "fenotipo_congestao")),
           sv(Get(poc, "fe_pct")), sv(Get(poc, "ee_ratio")),
           sv(Get(poc, "linhas_b_n")), sv(Get(poc, "vci_mm")) >>
        \o med_cells(med)
        \o << isoformat(now) >>

build_doentes_row(n_processo, extracted, now) ==
    IF doentes_error(extracted) # "" THEN Raise(doentes_error(extracted))
    ELSE Ok(doentes_cells(n_processo, extracted, now))

\* Whether build_visitas_row raises, and what; "" when it returns
visitas_error(extracted) ==
    IF ~IsDict(extracted) THEN "TypeError"
    ELSE IF ~HasKey(extracted, "visita") THEN "KeyError"
    ELSE LET v == Item(extracted, "visita") IN
         IF ~IsDict(v) THEN "AttributeError"
         ELSE IF \E g \in {"analises", "sintomas", "exame_fisico"} :
                     ~IsDict(GetOr(v, g, EmptyDict))
              THEN "AttributeError"
         ELSE ""

\* the row without the sv(a.get("ca_ionizado")) cell
visitas_cells_short(n_processo, extracted) ==
    LET v  == Item(extracted, "visita")
        a  == GetOr(v, "analises", EmptyDict)
        s  == GetOr(v, "sintomas", EmptyDict)
        ef == GetOr(v, "exame_fisico", EmptyDict)
    IN  << n_processo, sv(Get(v, "data_consulta")),
           sv(Get(a, "ureia")), sv(Get(a, "creatinina")), sv(Get(a, "cistatina_c")),
           sv(Get(a, "tfge_ckd_epi_crcist")),
           sv(Get(a, "racu")), sv(Get(a, "rpc")), sv(Get(a, "na_urinario")),
           sv(Get(a, "albumina")),
           sv(Get(a, "alt")), sv(Get(a, "ast")), sv(Get(a, "ggt")), sv(Get(a, "bilirrubina_total")),
           sv(Get(a, "na")), sv(Get(a, "k")), sv(Get(a, "cl")), sv(Get(a, "ca")),
           sv(Get(a, "p")), sv(Get(a, "mg")),
           sv(Get(a, "pth")), sv(Get(a, "vit_d")),
           sv(Get(a, "nt_probnp")), sv(Get(a, "bnp")), sv(Get(a, "ca125")),
           sv(Get(a, "hgb")), sv(Get(a, "leucocitos")), sv(Get(a, "plaquetas")),
           sv(Get(a, "hco3")),
           sv(Get(a, "sumario_urina")),
           sv(Get(s, "nyha")), sv(Get(s, "ccs")),
           sv(Get(s, "ortopneia")), sv(Get(s, "bendopneia")), sv(Get(s, "edemas_mi")),
           sv(Get(s, "claudicacao_intermitente")), sv(Get(s, "palpitacoes")),
           sv(Get(ef, "peso_kg")), sv(Get(ef, "altura_m")), sv(Get(ef, "imc")),
           sv(Get(ef, "ta_sist")), sv(Get(ef, "ta_diast")), sv(Get(ef, "fc")), sv(Get(ef, "spo2")) >>

\* the list returned by build_visitas_row, for a record on which it does not raise
visitas_cells(n_processo, extracted) ==
    LET v  == Item(extracted, "visita")
        a  == GetOr(v, "analises", EmptyDict)
        s  == GetOr(v, "sintomas", EmptyDict)
        ef == GetOr(v, "exame_fisico", EmptyDict)
    IN  << n_processo, sv(Get(v, "data_consulta")),
           sv(Get(a, "ureia")), sv(Get(a, "creatinina")), sv(Get(a, "cistatina_c")),
           sv(Get(a, "tfge_ckd_epi_crcist")),
           sv(Get(a, "racu")), sv(Get(a, "rpc")), sv(Get(a, "na_urinario")),
           sv(Get(a, "albumina")),
           sv(Get(a, "alt")), sv(Get(a, "ast")), sv(Get(a, "ggt")), sv(Get(a, "bilirrubina_total")),
           sv(Get(a, "na")), sv(Get(a, "k")), sv(Get(a, "cl")), sv(Get(a, "ca")),
           sv(Get(a, "p")), sv(Get(a, "mg")),
           sv(Get(a, "pth")), sv(Get(a, "vit_d")),
           sv(Get(a, "nt_probnp")), sv(Get(a, "bnp")), sv(Get(a, "ca125")),
           sv(Get(a, "hgb")), sv(Get(a, "leucocitos")), sv(Get(a, "plaquetas")),
           sv(Get(a, "hco3")), sv(Get(a, "ca_ionizado")),
           sv(Get(a, "sumario_urina")),
           sv(Get(s, "nyha")), sv(Get(s, "ccs")),
           sv(Get(s, "ortopneia")), sv(Get(s, "bendopneia")), sv(Get(s, "edemas_mi")),
           sv(Get(s, "claudicacao_intermitente")), sv(Get(s, "palpitacoes")),
           sv(Get(ef, "peso_kg")), sv(Get(ef, "altura_m")), sv(Get(ef, "imc")),
           sv(Get(ef, "ta_sist")), sv(Get(ef, "ta_diast")), sv(Get(ef, "fc")), sv(Get(ef, "spo2")) >>

build_visitas_row(n_processo, extracted) ==
    IF visitas_error(extracted) # "" THEN Raise(visitas_error(extracted))
    ELSE Ok(visitas_cells(n_processo, extracted))

----------------------------------------------------------------------------
(* The record shape requested from the model (EXTRACTION_PROMPT) *)

\* a dict whose keys, in order, all map to null
NullDict(keys) == Dict([i \in 1..Len(keys) |-> <<keys[i], None>>])

MED_ENTRY == NullDict(<<"presente", "farmaco", "dose">>)

TEMPLATE_DOENTE ==
    Dict(<< <<"data_nascimento", None>>, <<"sexo", None>>, <<"localidade", None>>,
            <<"profissao", None>>, <<"frailty_cfs", None>>, <<"referenciacao", None>>,
            <<"frcv", NullDict(<<"dm2", "tabagismo", "hta", "dislipidemia", "obesidade",
                                 "saos", "sedentarismo", "hx_familiar_dc">>)>>,
            <<"comorbilidades", NullDict(<<"dap", "dpoc", "doenca_hepatica", "hbp",
                                           "fa", "outras">>)>>,
            <<"ic", NullDict(<<"tipo_fe", "etiologia", "feve_atual", "feve_trajetoria">>)>>,
            <<"drc", NullDict(<<"grau", "albuminuria", "etiologia">>)>>,
            <<"fenotipo_congestao", None>>,
            <<"pocus", NullDict(<<"fe_pct", "ee_ratio", "linhas_b_n", "vci_mm">>)>>,
            <<"medicacao", Dict([i \in 1..Len(MED_CLASSES) |-> <<MED_CLASSES[i], MED_ENTRY>>])>> >>)

TEMPLATE_VISITA ==
    Dict(<< <<"data_consulta", None>>,
            <<"analises", NullDict(<<"ureia", "creatinina", "cistatina_c",
                    "tfge_ckd_epi_crcist", "racu", "rpc", "na_urinario", "albumina",
                    "alt", "ast", "ggt", "bilirrubina_total", "na", "k", "cl", "ca",
                    "p", "mg", "pth", "vit_d", "nt_probnp", "bnp", "ca125", "hgb",
                    "leucocitos", "plaquetas", "hco3", "ca_ionizado", "sumario_urina">>)>>,
            <<"sintomas", NullDict(<<"nyha", "ccs", "ortopneia", "bendopneia", "edemas_mi",
                    "claudicacao_intermitente", "palpitacoes">>)>>,
            <<"exame_fisico", NullDict(<<"peso_kg", "altura_m", "imc", "ta_sist",
                    "ta_diast", "fc", "spo2">>)>> >>)

TEMPLATE == Dict(<< <<"doente", TEMPLATE_DOENTE>>, <<"visita", TEMPLATE_VISITA>> >>)

----------------------------------------------------------------------------
(* Editing a nested value: how one record differs from another *)

\* the paths (key sequences) of all nodes below v
RECURSIVE Paths(_)
Paths(v) ==
    IF ~IsDict(v) THEN {}
    ELSE UNION { {<<v[2][i][1]>>} \cup { <<v[2][i][1]>> \o p : p \in Paths(v[2][i][2]) }
                 : i \in 1..Len(v[2]) }

\* the node at a path that exists
RECURSIVE At(_, _)
At(v, path) == IF path = << >> THEN v ELSE At(Item(v, Head(path)), Tail(path))

\* v with the node at path replaced by new
RECURSIVE SetAt(_, _, _)
SetAt(v, path, new) ==
    IF path = << >> THEN new
    ELSE Dict([i \in 1..Len(v[2]) |->
                 IF v[2][i][1] = Head(path)
                 THEN <<v[2][i][1], SetAt(v[2][i][2], Tail(path), new)>>
                 ELSE v[2][i]])

WithoutKey(d, k) ==
    LET Other(pair) == pair[1] # k
    IN  Dict(SelectSeq(d[2], Other))

\* v with the key at path absent
DropAt(v, path) ==
    LET parent == SubSeq(path, 1, Len(path) - 1)
        k      == path[Len(path)]
    IN  SetAt(v, parent, WithoutKey(At(v, parent), k))

\* v with the key at path moved to the end of its mapping (another insertion order)
MoveLast(v, path) ==
    LET parent == SubSeq(path, 1, Len(path) - 1)
        k      == path[Len(path)]
        d      == At(v, parent)
    IN  SetAt(v, parent, Dict(WithoutKey(d, k)[2] \o << <<k, Item(d, k)>> >>))

\* The end-to-end scenario of the specification
SCENARIO ==
    LET r1 == SetAt(TEMPLATE, <<"doente", "sexo">>, Str("M"))
        r2 == SetAt(r1, <<"doente", "frailty_cfs">>, Num(4))
        r3 == SetAt(r2, <<"doente", "ic", "tipo_fe">>, Str("FEp"))
    IN  SetAt(r3, <<"doente", "medicacao", "rasi">>,
              Dict(<< <<"presente", PyTrue>>, <<"farmaco", Str("losartan")>>,
                      <<"dose", Str("50mg")>> >>))

----------------------------------------------------------------------------
(* Projection harness: the row builders applied to edited records *)

\* the leaves the prompt asks booleans for: the medication presence flags and the
\* leaves of the risk-factor, comorbidity and symptom groups
BooleanLeaf(path) ==
    \/ path[Len(path)] = "presente"
    \/ Len(path) = 3 /\ path[2] \in {"frcv", "comorbilidades", "sintomas"}

\* the values an edit may put at a node: a sub-mapping becomes null or a number, a
\* boolean leaf False, any other leaf the number 1; a top-level leaf may also become
\* the empty string, and the birth date a date
EditValues(path, node) ==
    IF IsDict(node) THEN { None, Num(1) }
    ELSE (IF BooleanLeaf(path) THEN { PyFalse } ELSE { Num(1) })
         \cup (IF Len(path) = 2 THEN { Str("") } ELSE {})
         \cup (IF path = <<"doente", "data_nascimento">> THEN { Str("1960-03-10") } ELSE {})

\* the keys whose position in their mapping an edit may change: those of sub-mappings
Movable(v, path) == IsDict(At(v, path))

BaseRecords == { SCENARIO }

ProjIds == { "123456" }

Dates == { <<2024, 3, 9>>, <<2024, 3, 10>> }

NotProjected == [done |-> FALSE, id |-> "", d |-> Raise(""), v |-> Raise("")]

ProjInit ==
    /\ rec \in BaseRecords
    /\ edits = 0
    /\ proj = NotProjected

EditSet ==
    /\ ~proj.done /\ edits < MaxEdits
    /\ \E p \in Paths(rec) : \E val \in EditValues(p, At(rec, p)) :
          /\ At(rec, p) # val
          /\ rec' = SetAt(rec, p, val)
    /\ edits' = edits + 1
    /\ UNCHANGED proj

EditDrop ==
    /\ ~proj.done /\ edits < MaxEdits
    /\ \E p \in Paths(rec) : rec' = DropAt(rec, p)
    /\ edits' = edits + 1
    /\ UNCHANGED proj

EditMove ==
    /\ ~proj.done /\ edits < MaxEdits
    /\ \E p \in Paths(rec) :
          /\ Movable(rec, p)
          /\ MoveLast(rec, p) # rec
          /\ rec' = MoveLast(rec, p)
    /\ edits' = edits + 1
    /\ UNCHANGED proj

Project ==
    /\ ~proj.done
    /\ \E id \in ProjIds, now \in Dates :
          /\ today' = now
          /\ proj' = [done |-> TRUE, id |-> id,
                      d |-> build_doentes_row(id, rec, now),
                      v |-> build_visitas_row(id, rec)]
    /\ UNCHANGED <<rec, edits>>

----------------------------------------------------------------------------
(* The spreadsheet: worksheets as sequences of rows, rows as sequences of cells *)

RECURSIVE TrimTrailingEmpty(_)
TrimTrailingEmpty(col) ==
    IF col # << >> /\ col[Len(col)] = "" THEN TrimTrailingEmpty(SubSeq(col, 1, Len(col) - 1))
    ELSE col

\* ws.col_values(1): the first cell of every row, trailing empty cells left out
col_values(rows) ==
    TrimTrailingEmpty([i \in 1..Len(rows) |-> IF rows[i] = << >> THEN "" ELSE rows[i][1]])

\* x in col
InList(x, col) == \E i \in 1..Len(col) : col[i] = x

\* col.index(x) + 1: the 1-based position of the first occurrence
IndexOf(x, col) == CHOOSE i \in 1..Len(col) : col[i] = x /\ \A j \in 1..(i - 1) : col[j] # x

\* ws.delete_rows(idx)
delete_rows(rows, idx) == SubSeq(rows, 1, idx - 1) \o SubSeq(rows, idx + 1, Len(rows))

\* ws.insert_row(row, idx)
insert_row(rows, row, idx) == SubSeq(rows, 1, idx - 1) \o <<row>> \o SubSeq(rows, idx, Len(rows))

\* ws.append_row(row)
append_row(rows, row) == Append(rows, row)

(* A handler's run against the spreadsheet: the worksheets so far, the ordered  *)
(* log of the steps taken, the number of storage calls made, the call that is   *)
(* to fail (0: none), and the exception raised ("" while none).  A storage call *)
(* that fails raises and changes nothing.                                       *)
Run0(shs, failAt) == [sheets |-> shs, log |-> << >>, n |-> 0, failAt |-> failAt, err |-> ""]

\* one storage call: op on worksheet ws, leaving the worksheets as `after`
Call(st, op, ws, after) ==
    IF st.err # "" THEN st
    ELSE IF st.n + 1 = st.failAt
         THEN [st EXCEPT !.n = st.n + 1, !.err = "APIError",
                         !.log = Append(st.log, <<op, ws, FALSE>>)]
         ELSE [st EXCEPT !.n = st.n + 1, !.sheets = after,
                         !.log = Append(st.log, <<op, ws, TRUE>>)]

\* one in-memory step that raises err unless err = ""
Step(st, op, err) ==
    IF st.err # "" THEN st
    ELSE [st EXCEPT !.err = err, !.log = Append(st.log, <<op, "", err = "">>)]

WithSheet(shs, ws, rows) == [x \in DOMAIN shs \cup {ws} |-> IF x = ws THEN rows ELSE shs[x]]

\* spreadsheet.worksheet(name), and on WorksheetNotFound add_worksheet + append_row(headers)
get_or_create_sheet(st, name, headers) ==
    LET s1 == Call(st, "worksheet", name, st.sheets)
    IN  IF s1.err # "" \/ name \in DOMAIN s1.sheets THEN s1
        ELSE LET s2 == Call(s1, "add_worksheet", name, WithSheet(s1.sheets, name, << >>))
             IN  Call(s2, "append_row", name,
                      WithSheet(s2.sheets, name, append_row(s2.sheets[name], headers)))

update_doentes_sheet(st, ws, n_processo, row) ==
    LET s1    == Call(st, "col_values", ws, st.sheets)
        col_a == col_values(s1.sheets[ws])
    IN  IF s1.err # "" THEN s1
        ELSE IF InList(n_processo, col_a)
        THEN LET row_idx == IndexOf(n_processo, col_a)
                 s2 == Call(s1, "delete_rows", ws,
                            WithSheet(s1.sheets, ws, delete_rows(s1.sheets[ws], row_idx)))
             IN  Call(s2, "insert_row", ws,
                      WithSheet(s2.sheets, ws, insert_row(s2.sheets[ws], row, row_idx)))
        ELSE Call(s1, "append_row", ws,
                  WithSheet(s1.sheets, ws, append_row(s1.sheets[ws], row)))

----------------------------------------------------------------------------
(* Extraction *)

\* A reply of the model: <<"error">> when the call raises, else <<"text", tokens>>,
\* the tokens of response.text.strip(): a code fence, a JSON document, or prose.
Fence       == <<"fence">>
JsonText(v) == <<"json", v>>
Prose       == <<"prose">>

\* re.sub(r"^```(?:json)?\s*", "", raw)
strip_open(tokens) ==
    IF tokens # << >> /\ Head(tokens) = Fence THEN Tail(tokens) ELSE tokens

\* re.sub(r"\s*```$", "", raw)
strip_close(tokens) ==
    IF tokens # << >> /\ tokens[Len(tokens)] = Fence
    THEN SubSeq(tokens, 1, Len(tokens) - 1) ELSE tokens

\* json.loads(raw): the value of a text that is exactly one JSON document
json_loads(tokens) ==
    IF Len(tokens) = 1 /\ tokens[1][1] = "json"
    THEN [ok |-> TRUE, value |-> tokens[1][2], err |-> ""]
    ELSE [ok |-> FALSE, value |-> None, err |-> "JSONDecodeError"]

extract_with_gemini(reply) ==
    IF reply[1] = "error" THEN [ok |-> FALSE, value |-> None, err |-> "Exception"]
    ELSE json_loads(strip_close(strip_open(reply[2])))

----------------------------------------------------------------------------
(* Review *)

\* Whether render_review raises, and what; "" when it renders
render_review(extracted) ==
    IF ~IsDict(extracted) THEN "TypeError"
    ELSE IF ~HasKey(extracted, "doente") \/ ~HasKey(extracted, "visita") THEN "KeyError"
    ELSE LET d == Item(extracted, "doente")
             v == Item(extracted, "visita")
         IN  IF ~IsDict(d) \/ ~IsDict(v) THEN "AttributeError"
             ELSE IF \/ \E g \in {"ic", "drc", "pocus", "medicacao"} :
                           ~IsDict(GetOr(d, g, EmptyDict))
                     \/ \E g \in {"analises", "sintomas", "exame_fisico"} :
                           ~IsDict(GetOr(v, g, EmptyDict))
                  THEN "AttributeError"
             ELSE IF \E i \in 1..Len(MED_CLASSES) :
                         med3_raises(GetOr(d, "medicacao", EmptyDict), MED_CLASSES[i])
                  THEN "AttributeError"
             ELSE ""

----------------------------------------------------------------------------
(* Session state *)

Has(ss, k)       == k \in DOMAIN ss
SetKey(ss, k, v) == [x \in DOMAIN ss \cup {k} |-> IF x = k THEN v ELSE ss[x]]
Pop(ss, k)       == [x \in DOMAIN ss \ {k} |-> ss[x]]

\* st.session_state.get(k) for the two flags
Flag(ss, k) == Has(ss, k) /\ ss[k]

\* line 591: the review block, with its two buttons, is run
review_shown(ss) == Flag(ss, "ready_to_save") /\ Has(ss, "extracted")

\* the two buttons are reached only if render_review returns
buttons_shown(ss) == review_shown(ss) /\ render_review(ss["extracted"]) = ""

\* lines 579-581
store_extraction(ss, extracted, n_processo) ==
    SetKey(SetKey(SetKey(ss, "extracted", extracted), "n_processo", n_processo),
           "ready_to_save", TRUE)

\* the identifier typed in the form at the time of the click
save_identifier_typed(ss, typed) == IF typed # "" THEN typed ELSE ss["n_processo"]

\* line 593: the identifier saved is the one stored with the extraction
save_identifier(ss, typed) == ss["n_processo"]

\* the flag left set after a save
after_save_keep(ss) == ss

\* line 621
after_save(ss) == SetKey(ss, "ready_to_save", FALSE)

\* lines 627-628
discard(ss) == Pop(SetKey(ss, "ready_to_save", FALSE), "extracted")

----------------------------------------------------------------------------
(* The save: lines 611-617 *)

\* an upsert by visit key instead of an append
append_visit_upsert(st, row) == update_doentes_sheet(st, SHEET_VISITAS, row[1], row)

\* line 617: ws_v.append_row(...)
append_visit(st, row) ==
    Call(st, "append_row", SHEET_VISITAS,
         WithSheet(st.sheets, SHEET_VISITAS, append_row(st.sheets[SHEET_VISITAS], row)))

save_run(shs, failAt, n_processo, extracted, now) ==
    LET s0 == Run0(shs, failAt)
        s1 == Call(s0, "open_by_key", "", s0.sheets)
        s2 == get_or_create_sheet(s1, SHEET_DOENTES, HEADERS_DOENTES)
        s3 == get_or_create_sheet(s2, SHEET_VISITAS, HEADERS_VISITAS)
        s4 == get_or_create_sheet(s3, SHEET_EVENTOS, HEADERS_EVENTOS)
        rd == build_doentes_row(n_processo, extracted, now)
        s5 == Step(s4, "build_doentes_row", rd.err)
        s6 == IF s5.err # "" THEN s5
              ELSE update_doentes_sheet(s5, SHEET_DOENTES, n_processo, rd.row)
        rv == build_visitas_row(n_processo, extracted)
        s7 == Step(s6, "build_visitas_row", rv.err)
    IN  IF s7.err # "" THEN s7 ELSE append_visit(s7, rv.row)

----------------------------------------------------------------------------
(* The application: one action per script run that a click triggers *)

NoReply == <<"none">>

\* typed: the identifier in the form, recorded when an extraction is stored
RunOf(op, result, log, reply, typed) ==
    [op |-> op, result |-> result, log |-> log, reply |-> reply, typed |-> typed]

NoRun == RunOf("", "", << >>, NoReply, "")

\* the identifiers typed in the form
AppIds == { "A", "B" }

\* SCENARIO with the risk-factor group null
FRCV_NULL == SetAt(SCENARIO, <<"doente", "frcv">>, None)

\* the replies of the model
Replies ==
    { <<"error">>,
      <<"text", <<Prose>> >>,
      <<"text", <<JsonText(SCENARIO)>> >>,
      <<"text", <<Fence, JsonText(TEMPLATE), Fence>> >>,
      <<"text", <<JsonText(FRCV_NULL)>> >>,
      <<"text", <<JsonText(EmptyDict)>> >> }

Provisioned ==
    [x \in {SHEET_DOENTES, SHEET_VISITAS, SHEET_EVENTOS} |->
        CASE x = SHEET_DOENTES -> <<HEADERS_DOENTES>>
          [] x = SHEET_VISITAS -> <<HEADERS_VISITAS>>
          [] x = SHEET_EVENTOS -> <<HEADERS_EVENTOS>>]

FirstDate == CHOOSE d \in Dates : \A e \in Dates : d[3] <= e[3]

AppInit ==
    /\ session_state = << >>
    /\ sheets \in { << >>, Provisioned }
    /\ last = NoRun
    /\ nSaves = 0

\* check_password: the "Entrar" button, then the first full run (lines 538-539)
Login ==
    /\ ~Flag(session_state, "authenticated")
    /\ \E correct \in BOOLEAN :
          IF correct
          THEN /\ session_state' =
                    SetKey(SetKey(session_state, "authenticated", TRUE),
                           "ready_to_save", FALSE)
               /\ last' = RunOf("login", "ok", << >>, NoReply, "")
          ELSE /\ session_state' = session_state
               /\ last' = RunOf("login", "wrong_password", << >>, NoReply, "")
    /\ UNCHANGED <<sheets, nSaves>>

\* the "Processar Consulta" button: lines 559-588, then the review block of the same run
Processar ==
    /\ Flag(session_state, "authenticated")
    /\ \E docx_ok \in BOOLEAN :
          IF ~docx_ok
          THEN /\ session_state' = session_state
               /\ last' = RunOf("process", "docx_error", << >>, NoReply, "")
          ELSE \E reply \in Replies :
                  LET got == extract_with_gemini(reply) IN
                  IF ~got.ok
                  THEN /\ session_state' = session_state
                       /\ last' = RunOf("process", got.err, << >>, reply, "")
                  ELSE \E n_processo \in AppIds :
                          /\ session_state' =
                                store_extraction(session_state, got.value, n_processo)
                          /\ last' = RunOf("process",
                                           IF render_review(got.value) = ""
                                           THEN "extracted"
                                           ELSE "extracted_review_raised",
                                           << >>, reply, n_processo)
    /\ UNCHANGED <<sheets, nSaves>>

\* the "Guardar no Google Sheets" button: lines 608-623
Guardar ==
    /\ Flag(session_state, "authenticated")
    /\ buttons_shown(session_state)
    /\ nSaves < MaxSaves
    /\ \E n_processo \in { save_identifier(session_state, typed) : typed \in AppIds \cup {""} } :
          LET extracted == session_state["extracted"]
              clean     == save_run(sheets, 0, n_processo, extracted, today)
          IN  \E failAt \in 0..clean.n :
                 LET run == save_run(sheets, failAt, n_processo, extracted, today) IN
                 /\ sheets' = run.sheets
                 /\ session_state' = IF run.err = "" THEN after_save(session_state)
                                     ELSE session_state
                 /\ last' = RunOf("save", IF run.err = "" THEN "saved" ELSE run.err,
                                  run.log, NoReply, "")
    /\ nSaves' = nSaves + 1

\* the "Cancelar" button: lines 626-629
Cancelar ==
    /\ Flag(session_state, "authenticated")
    /\ buttons_shown(session_state)
    /\ session_state' = discard(session_state)
    /\ last' = RunOf("discard", "ok", << >>, NoReply, "")
    /\ UNCHANGED <<sheets, nSaves>>

----------------------------------------------------------------------------
(* Upsert harness: update_doentes_sheet called on one provisioned worksheet *)

UpsIds == { "A", "B", HEADERS_DOENTES[1] }

UpsRecords == { SCENARIO, TEMPLATE }

UpsInit ==
    /\ table = <<HEADERS_DOENTES>>
    /\ hist = << >>

Upsert ==
    /\ Len(hist) < MaxUpserts
    /\ \E id \in UpsIds, r \in UpsRecords :
          LET row == build_doentes_row(id, r, today).row
              run == update_doentes_sheet(Run0((SHEET_DOENTES :> table), 0),
                                          SHEET_DOENTES, id, row)
          IN  /\ table' = run.sheets[SHEET_DOENTES]
              /\ hist' = Append(hist, <<id, row>>)

----------------------------------------------------------------------------
(* Provisioning harness: get_or_create_sheet called on a spreadsheet whose      *)
(* worksheets also receive data rows                                            *)

\* the three worksheets of lines 612-614 and the header each is provisioned with
TableNames == { SHEET_DOENTES, SHEET_VISITAS, SHEET_EVENTOS }

HeaderOf(name) ==
    IF name = SHEET_DOENTES THEN HEADERS_DOENTES
    ELSE IF name = SHEET_VISITAS THEN HEADERS_VISITAS
    ELSE HEADERS_EVENTOS

\* the storage calls of get_or_create_sheet: worksheet, add_worksheet, append_row
EnsureCalls == 3

\* a data row written by a save
DataRow == <<"A">>

EnsInit == sheets = << >> /\ session_state = << >> /\ last = NoRun /\ nSaves = 0

\* one call get_or_create_sheet(ss, name, headers); any of its storage calls may raise
Ensure ==
    /\ \E name \in TableNames, failAt \in 0..EnsureCalls :
          LET run == get_or_create_sheet(Run0(sheets, failAt), name, HeaderOf(name))
          IN  /\ sheets' = run.sheets
              /\ last' = RunOf("ensure", IF run.err = "" THEN "ok" ELSE run.err,
                               run.log, NoReply, "")
    /\ UNCHANGED <<session_state, nSaves>>

\* ws.append_row(row) on an existing worksheet (lines 154, 617)
AppendData ==
    /\ \E name \in DOMAIN sheets :
          /\ Len(sheets[name]) < MaxRows
          /\ sheets' = WithSheet(sheets, name, append_row(sheets[name], DataRow))
    /\ last' = RunOf("append_row", "ok", << >>, NoReply, "")
    /\ UNCHANGED <<session_state, nSaves>>

----------------------------------------------------------------------------
(* Specifications *)

AppIdle  == session_state = << >> /\ sheets = << >> /\ last = NoRun /\ nSaves = 0
ProjIdle == rec = SCENARIO /\ edits = 0 /\ proj = NotProjected
UpsIdle  == table = << >> /\ hist = << >>

Init == AppInit /\ today = FirstDate /\ ProjIdle /\ UpsIdle

Next ==
    \/ Login     /\ UNCHANGED <<today, projVars, upsVars>>
    \/ Processar /\ UNCHANGED <<today, projVars, upsVars>>
    \/ Guardar   /\ UNCHANGED <<today, projVars, upsVars>>
    \/ Cancelar  /\ UNCHANGED <<today, projVars, upsVars>>

Spec == Init /\ [][Next]_vars

InitProj == ProjInit /\ today = FirstDate /\ AppIdle /\ UpsIdle

NextProj ==
    \/ EditSet  /\ UNCHANGED <<today, appVars, upsVars>>
    \/ EditDrop /\ UNCHANGED <<today, appVars, upsVars>>
    \/ EditMove /\ UNCHANGED <<today, appVars, upsVars>>
    \/ Project  /\ UNCHANGED <<appVars, upsVars>>

SpecProj == InitProj /\ [][NextProj]_vars

InitUpsert == UpsInit /\ today = FirstDate /\ AppIdle /\ ProjIdle

NextUpsert == Upsert /\ UNCHANGED <<today, appVars, projVars>>

SpecUpsert == InitUpsert /\ [][NextUpsert]_vars

InitEnsure == EnsInit /\ today = FirstDate /\ ProjIdle /\ UpsIdle

NextEnsure ==
    \/ Ensure     /\ UNCHANGED <<today, projVars, upsVars>>
    \/ AppendData /\ UNCHANGED <<today, projVars, upsVars>>

SpecEnsure == InitEnsure /\ [][NextEnsure]_vars

----------------------------------------------------------------------------
(* What the claims say about the rows, stated from the headers *)

\* the position of a column in a header row
Col(headers, name) == CHOOSE c \in 1..Len(headers) : headers[c] = name

\* the header column of each medication class, in the class order of the claims
MED_HEADERS ==
    << "RASi", "MRA", "iSGLT2", "GLP1RA", "Estatina", "Diuretico_ansa",
       "Diuretico_tiazida", "Acetazolamida", "BetaBloqueante", "Antiagregante",
       "Anticoagulante", "Ivabradina" >>

CLAIMED_CLASS_ORDER ==
    << "rasi", "mra", "isglt2", "glp1ra", "estatina", "diuretico_ansa",
       "diuretico_tiazida", "acetazolamida", "beta_bloqueante", "antiagregante",
       "anticoagulante", "ivabradina" >>

\* the leaf of the patient part that each non-medication column of "Doentes" names
DoentesLeaf ==
    [ Data_Nascimento |-> <<"data_nascimento">>,
      Sexo |-> <<"sexo">>,
      Localidade |-> <<"localidade">>,
      Profissao |-> <<"profissao">>,
      Frailty_CFS |-> <<"frailty_cfs">>,
      Referenciacao |-> <<"referenciacao">>,
      Fenotipo_congestao |-> <<"fenotipo_congestao">>,
      DM2 |-> <<"frcv", "dm2">>,
      Tabagismo |-> <<"frcv", "tabagismo">>,
      HTA |-> <<"frcv", "hta">>,
      Dislipidemia |-> <<"frcv", "dislipidemia">>,
      Obesidade |-> <<"frcv", "obesidade">>,
      SAOS |-> <<"frcv", "saos">>,
      Sedentarismo |-> <<"frcv", "sedentarismo">>,
      HxFamiliar_DC |-> <<"frcv", "hx_familiar_dc">>,
      DAP |-> <<"comorbilidades", "dap">>,
      DPOC |-> <<"comorbilidades", "dpoc">>,
      Doenca_hepatica |-> <<"comorbilidades", "doenca_hepatica">>,
      HBP |-> <<"comorbilidades", "hbp">>,
      FA |-> <<"comorbilidades", "fa">>,
      Outras_comorbilidades |-> <<"comorbilidades", "outras">>,
      IC_FE_tipo |-> <<"ic", "tipo_fe">>,
      IC_Etiologia |-> <<"ic", "etiologia">>,
      IC_FEVE_atual_pct |-> <<"ic", "feve_atual">>,
      IC_FEVE_trajetoria |-> <<"ic", "feve_trajetoria">>,
      DRC_Grau |-> <<"drc", "grau">>,
      DRC_Albuminuria |-> <<"drc", "albuminuria">>,
      DRC_Etiologia |-> <<"drc", "etiologia">>,
      POCUS_FE_pct |-> <<"pocus", "fe_pct">>,
      POCUS_EE_ratio |-> <<"pocus", "ee_ratio">>,
      POCUS_LinhasB_N |-> <<"pocus", "linhas_b_n">>,
      POCUS_VCI_mm |-> <<"pocus", "vci_mm">> ]

\* the leaf at a path, null when the path is absent or passes through a null
RECURSIVE LeafOrNull(_, _)
LeafOrNull(v, path) ==
    IF path = << >> THEN v
    ELSE IF IsDict(v) /\ HasKey(v, Head(path)) THEN LeafOrNull(Item(v, Head(path)), Tail(path))
    ELSE None

\* the stringification the claims state
Stringified(v) ==
    CASE v[1] = "null" -> ""
      [] v[1] = "bool" -> (IF v[2] THEN "Sim" ELSE "Não")
      [] v[1] = "num"  -> ToString(v[2])
      [] v[1] = "str"  -> v[2]
      [] OTHER         -> PyStr(v)

IdadeCol == Col(HEADERS_DOENTES, "Idade")
LastCol  == Len(HEADERS_DOENTES)
LeafCols == (2..(LastCol - 1)) \ {IdadeCol}

\* the path, below the patient part, of the leaf that the header of column c names
PathOfHeader(h) ==
    IF h \in DOMAIN DoentesLeaf THEN DoentesLeaf[h]
    ELSE LET i == CHOOSE j \in 1..Len(MED_HEADERS) :
                      h \in { MED_HEADERS[j], MED_HEADERS[j] \o "_farmaco",
                              MED_HEADERS[j] \o "_dose" }
             f == IF h = MED_HEADERS[i] THEN "presente"
                  ELSE IF h = MED_HEADERS[i] \o "_farmaco" THEN "farmaco"
                  ELSE "dose"
         IN  <<"medicacao", CLAIMED_CLASS_ORDER[i], f>>

DoentesPaths == [c \in LeafCols |-> PathOfHeader(HEADERS_DOENTES[c])]

\* the leaf named by column c of the patient-state row (c is neither the identifier,
\* the age nor the save date)
NamedLeaf(record, c) == LeafOrNull(record, <<"doente">> \o DoentesPaths[c])

\* the first of the three columns of each medication class
MedCol == [i \in 1..Len(MED_HEADERS) |-> Col(HEADERS_DOENTES, MED_HEADERS[i])]

DoentesDone == proj.done /\ proj.d.ok
VisitasDone == proj.done /\ proj.v.ok

----------------------------------------------------------------------------
(* C8 *)

\* C8: whenever build_doentes_row returns, the row has as many cells as
\* HEADERS_DOENTES, and whenever build_visitas_row returns, the row has as many
\* cells as HEADERS_VISITAS, whatever leaves are null, absent or set.
C8_RowLengths ==
    /\ DoentesDone => Len(proj.d.row) = Len(HEADERS_DOENTES)
    /\ VisitasDone => Len(proj.v.row) = Len(HEADERS_VISITAS)

\* a record whose medication mapping and lab results are absent was projected by both builders
C8_Witness ==
    /\ DoentesDone /\ VisitasDone
    /\ \/ ~HasKey(Item(rec, "doente"), "medicacao")
       \/ ~HasKey(Item(rec, "visita"), "analises")

----------------------------------------------------------------------------
(* C9 *)

\* C9: in the patient-state row class number i of the twelve (in the order rasi, mra,
\* ..., ivabradina) fills the three consecutive cells under its header columns
\* X, X_farmaco, X_dose with the stringified presence, agent and dose, whatever the
\* key order of the medication mapping; a class that is absent or null, or whose
\* fields are null, gives three empty strings, and no other column moves.
C9_MedicationCells ==
    DoentesDone =>
        \A i \in 1..Len(CLAIMED_CLASS_ORDER) :
            LET c   == MedCol[i]
                med == LeafOrNull(rec, <<"doente", "medicacao">>)
                m   == LeafOrNull(med, <<CLAIMED_CLASS_ORDER[i]>>)
            IN  /\ c = MedCol[1] + 3 * (i - 1)
                /\ HEADERS_DOENTES[c + 1] = MED_HEADERS[i] \o "_farmaco"
                /\ HEADERS_DOENTES[c + 2] = MED_HEADERS[i] \o "_dose"
                /\ proj.d.row[c]     = Stringified(LeafOrNull(m, <<"presente">>))
                /\ proj.d.row[c + 1] = Stringified(LeafOrNull(m, <<"farmaco">>))
                /\ proj.d.row[c + 2] = Stringified(LeafOrNull(m, <<"dose">>))
                /\ (m = None \/ ~Truthy(m)) =>
                      SubSeq(proj.d.row, c, c + 2) = <<"", "", "">>
                /\ proj.d.row[LastCol] = isoformat(today)

\* the mapping no longer starts with rasi, or lacks a class, and the rasi cells of the
\* scenario are still under the RASi columns
C9_Witness ==
    /\ DoentesDone
    /\ LET med == LeafOrNull(rec, <<"doente", "medicacao">>) IN
          /\ IsDict(med) /\ HasKey(med, "rasi")
          /\ med[2][1][1] # "rasi" \/ Len(med[2]) < Len(CLAIMED_CLASS_ORDER)
    /\ SubSeq(proj.d.row, Col(HEADERS_DOENTES, "RASi"), Col(HEADERS_DOENTES, "RASi") + 2)
          = <<"Sim", "losartan", "50mg">>

----------------------------------------------------------------------------
(* C10 *)

\* the birth-date leaf is a string that reads as a calendar date
BirthDateParses ==
    LET dob == LeafOrNull(rec, <<"doente", "data_nascimento">>)
    IN  IsStr(dob) /\ strptime(dob[2]) # {}

\* the end-to-end scenario of the specification
ScenarioRow ==
    (rec = SCENARIO /\ proj.id = "123456") =>
        \A c \in 1..LastCol :
            proj.d.row[c] =
                CASE c = 1 -> "123456"
                  [] c = Col(HEADERS_DOENTES, "Sexo") -> "M"
                  [] c = Col(HEADERS_DOENTES, "Frailty_CFS") -> "4"
                  [] c = Col(HEADERS_DOENTES, "IC_FE_tipo") -> "FEp"
                  [] c = Col(HEADERS_DOENTES, "RASi") -> "Sim"
                  [] c = Col(HEADERS_DOENTES, "RASi_farmaco") -> "losartan"
                  [] c = Col(HEADERS_DOENTES, "RASi_dose") -> "50mg"
                  [] c = LastCol -> isoformat(today)
                  [] OTHER -> ""

\* C10 as stated: the cells follow the headers and the non-empty cells are exactly the
\* identifier, the save date and the cells of the non-null leaves.
C10_Original ==
    DoentesDone =>
        /\ proj.d.row[1] = proj.id /\ proj.d.row[1] # ""
        /\ proj.d.row[LastCol] = isoformat(today)
        /\ proj.d.row[IdadeCol] = ""
        /\ \A c \in LeafCols :
              LET leaf == NamedLeaf(rec, c) IN
              /\ proj.d.row[c] = Stringified(leaf)
              /\ proj.d.row[c] # "" <=> leaf # None

\* C10 (amended): the cells follow the headers, and the non-empty cells are exactly the
\* identifier, the save date, the age when the birth date reads as a date, and the
\* cells of the leaves that are neither null nor the empty string; the scenario
\* projects to the row the specification gives.
C10_CellsFollowHeaders ==
    DoentesDone =>
        /\ proj.d.row[1] = proj.id /\ proj.d.row[1] # ""
        /\ proj.d.row[LastCol] = isoformat(today)
        /\ proj.d.row[IdadeCol] # "" <=> BirthDateParses
        /\ \A c \in LeafCols :
              LET leaf == NamedLeaf(rec, c) IN
              /\ proj.d.row[c] = Stringified(leaf)
              /\ proj.d.row[c] # "" <=> leaf \notin {None, Str("")}
        /\ ScenarioRow

\* the scenario record was projected
C10_Witness ==
    /\ DoentesDone
    /\ rec = SCENARIO /\ proj.id = "123456"
    /\ proj.d.row[Col(HEADERS_DOENTES, "RASi_dose")] = "50mg"

----------------------------------------------------------------------------
(* What the claims say about the session and the tables *)

\* the rows of a worksheet, none while it does not exist
Rows(shs, ws) == IF ws \in DOMAIN shs THEN shs[ws] ELSE << >>

IsPrefix(a, b) == Len(a) <= Len(b) /\ SubSeq(b, 1, Len(a)) = a

RowSet(rows) == { rows[i] : i \in 1..Len(rows) }

\* the Review Gate states of the specification
PendingReview(ss) == Flag(ss, "ready_to_save") /\ Has(ss, "extracted")
Idle(ss)          == ~PendingReview(ss)

\* what this step's script run was
Ran(op)        == last'.op = op
Extracted      == Ran("process") /\ last'.result \in {"extracted", "extracted_review_raised"}
Saved          == Ran("save") /\ last'.result = "saved"
SaveFailed     == Ran("save") /\ last'.result # "saved"
BuildFailed    == Ran("save") /\ last'.result \in {"TypeError", "KeyError", "AttributeError"}

\* the storage calls of a log that wrote, and its in-memory row-building steps
IsWrite(e) == e[1] \in {"add_worksheet", "append_row", "delete_rows", "insert_row"} /\ e[3]
IsBuild(e) == e[1] \in {"build_doentes_row", "build_visitas_row"}

\* a reply that parses into a nested record with a patient part and a visit part
ExpectedStructure(v) ==
    /\ IsDict(v) /\ HasKey(v, "doente") /\ HasKey(v, "visita")
    /\ IsDict(Item(v, "doente")) /\ IsDict(Item(v, "visita"))

----------------------------------------------------------------------------
(* C2 *)

\* C2: every step leaves the visit-history rows it found in place and unchanged (the
\* new table extends the old one), and a successful save adds exactly one row to it,
\* the projection of the saved visit, whether or not an equal row is already there.
C2_AppendOnly ==
    [][ LET v  == Rows(sheets, SHEET_VISITAS)
            v2 == Rows(sheets', SHEET_VISITAS)
            base == IF SHEET_VISITAS \in DOMAIN sheets THEN v ELSE <<HEADERS_VISITAS>>
        IN  /\ IsPrefix(v, v2)
            /\ Saved =>
                  v2 = Append(base, build_visitas_row(session_state["n_processo"],
                                                      session_state["extracted"]).row)
            /\ ~Ran("save") => v2 = v
      ]_vars

\* two saves of the same note left two equal visit rows
C2_Witness ==
    LET v == Rows(sheets, SHEET_VISITAS)
    IN  /\ Len(v) = 3 /\ v[1] = HEADERS_VISITAS /\ v[2] = v[3]
        /\ last.op = "save" /\ last.result = "saved"

----------------------------------------------------------------------------
(* C3 *)

\* C3: the tables change only in a save run started while the session is
\* PendingReview, and every row that such a step adds to the patient-state or
\* visit-history table is a header row or the projection of the identifier and record
\* the session stored at its last successful extraction; those two change only when
\* an extraction succeeds, to the parsed reply and the identifier typed then.
C3_PersistOnlyOnConfirm ==
    [][ /\ sheets' # sheets =>
            /\ Ran("save") /\ PendingReview(session_state)
            /\ LET id == session_state["n_processo"]
                   ex == session_state["extracted"]
                   rd == build_doentes_row(id, ex, today)
                   rv == build_visitas_row(id, ex)
               IN  /\ \A r \in RowSet(Rows(sheets', SHEET_DOENTES))
                              \ RowSet(Rows(sheets, SHEET_DOENTES)) :
                          r = HEADERS_DOENTES \/ (rd.ok /\ r = rd.row)
                   /\ \A r \in RowSet(Rows(sheets', SHEET_VISITAS))
                              \ RowSet(Rows(sheets, SHEET_VISITAS)) :
                          r = HEADERS_VISITAS \/ (rv.ok /\ r = rv.row)
        /\ (Has(session_state', "extracted") /\
              (\/ ~Has(session_state, "extracted")
               \/ session_state'["extracted"] # session_state["extracted"]
               \/ session_state'["n_processo"] # session_state["n_processo"])) =>
            /\ Extracted
            /\ session_state'["extracted"] = extract_with_gemini(last'.reply).value
            /\ session_state'["n_processo"] = last'.typed
      ]_vars

\* a save wrote the stored patient's row while the session held that identifier
C3_Witness ==
    LET d == Rows(sheets, SHEET_DOENTES)
    IN  /\ last.op = "save" /\ last.result = "saved"
        /\ Len(d) >= 2
        /\ d[Len(d)] = build_doentes_row(session_state["n_processo"],
                                         session_state["extracted"], today).row

----------------------------------------------------------------------------
(* C4 *)

\* C4: the session starts Idle; it becomes PendingReview only by a successful
\* extraction, which leaves it PendingReview holding exactly the newly parsed record
\* and the identifier typed with it; a save that succeeds, and a discard, are taken
\* only in PendingReview and leave it Idle, the discard without any held record; no
\* save or discard runs, and no table changes, while the session is Idle.
C4_ReviewGate ==
    /\ Idle(session_state)
    /\ [][ /\ (Idle(session_state) /\ PendingReview(session_state')) => Extracted
           /\ Extracted =>
                 /\ PendingReview(session_state')
                 /\ session_state'["extracted"] = extract_with_gemini(last'.reply).value
                 /\ session_state'["n_processo"] = last'.typed
           /\ Saved => PendingReview(session_state) /\ Idle(session_state')
           /\ Ran("discard") =>
                 /\ PendingReview(session_state) /\ Idle(session_state')
                 /\ ~Has(session_state', "extracted")
           /\ (Ran("save") \/ Ran("discard") \/ sheets' # sheets) =>
                 PendingReview(session_state)
         ]_vars

\* a save committed the pending record and the session is Idle again
C4_Witness ==
    /\ last.op = "save" /\ last.result = "saved"
    /\ Idle(session_state)
    /\ Len(Rows(sheets, SHEET_DOENTES)) >= 2

----------------------------------------------------------------------------
(* C5 *)

\* C5: whenever the reply does not parse into the expected structure (a nested record
\* with a patient part and a visit part), or the call raises, the run that processed
\* it leaves the session state exactly as it was.
C5_Original ==
    [][ (Ran("process") /\ last'.reply # NoReply /\
           LET got == extract_with_gemini(last'.reply)
           IN  ~got.ok \/ ~ExpectedStructure(got.value))
        => session_state' = session_state
      ]_vars

----------------------------------------------------------------------------
(* C6 *)

\* C6: when a storage call of a save fails, every identifier that had a row in the
\* patient-state table still has one, the rows of the other patients are unchanged,
\* and the visit-history rows are all still in place.
C6_Original ==
    [][ SaveFailed =>
          LET d  == Rows(sheets, SHEET_DOENTES)
              d2 == Rows(sheets', SHEET_DOENTES)
          IN  /\ \A i \in 1..Len(d) : \E j \in 1..Len(d2) : d2[j][1] = d[i][1]
              /\ \A i \in 1..Len(d) :
                    d[i][1] # session_state["n_processo"] => d[i] \in RowSet(d2)
              /\ IsPrefix(Rows(sheets, SHEET_VISITAS), Rows(sheets', SHEET_VISITAS))
      ]_vars

----------------------------------------------------------------------------
(* C7 *)

\* C7: in the call log of a save no row is built after a storage call that wrote, and
\* a save in which building a row raised leaves the tables as they were.
C7_Original ==
    [][ Ran("save") =>
          /\ \A i, j \in 1..Len(last'.log) :
                (i < j /\ IsWrite(last'.log[i])) => ~IsBuild(last'.log[j])
          /\ BuildFailed => sheets' = sheets
      ]_vars

----------------------------------------------------------------------------
(* C1 *)

UsedIds == { hist[i][1] : i \in 1..Len(hist) }

\* the row of the most recent upsert of id
LatestRow(id) ==
    LET k == CHOOSE i \in 1..Len(hist) :
                 /\ hist[i][1] = id
                 /\ \A j \in (i + 1)..Len(hist) : hist[j][1] # id
    IN  hist[k][2]

\* the rows under the header row
DataRows(rows) == 2..Len(rows)

\* one data row per identifier used, holding that identifier's latest values
OneRowPerId(ids) ==
    \A id \in ids :
        /\ Cardinality({ i \in DataRows(table) : table[i][1] = id }) = 1
        /\ \A i \in DataRows(table) : table[i][1] = id => table[i] = LatestRow(id)

\* C1: after any sequence of successful upserts on a provisioned patient-state table
\* the table holds exactly one data row per distinct identifier ever used, that row
\* holds the values of the most recent upsert of its identifier, and an upsert leaves
\* the rows of the other identifiers unchanged and in the same relative order.
C1_Original ==
    /\ [](/\ Len(table) = 1 + Cardinality(UsedIds)
          /\ OneRowPerId(UsedIds))
    /\ [][ LET id == hist'[Len(hist')][1]
               others(rows) == SelectSeq(rows, LAMBDA r : r[1] # id)
           IN  /\ others(table') = others(table)
               /\ \A i \in 1..Len(table) :
                      table[i][1] # id => (i <= Len(table') /\ table'[i] = table[i])
         ]_vars

\* C1 for the identifiers that differ from the first header cell: each has exactly one
\* data row, holding its latest values
C1_OtherIdentifiers == OneRowPerId(UsedIds \ {HEADERS_DOENTES[1]})

\* an identifier was upserted twice with different values and other rows are present
C1_UpdatedInPlace ==
    /\ \E i, j \in 1..Len(hist) : i < j /\ hist[i][1] = hist[j][1] /\ hist[i][2] # hist[j][2]
    /\ Len(table) = 3

----------------------------------------------------------------------------
(* C11 *)

\* the worksheet a get_or_create_sheet run was called for: that of its first call
EnsuredName(log) == log[1][2]

\* C11: a get_or_create_sheet call adds a worksheet only where none of that name
\* exists; whenever it leaves a worksheet where there was none, that worksheet holds
\* exactly the header as its only row; and a call for a worksheet that exists leaves
\* every worksheet, header and data rows, as it was.  No call touches a worksheet of
\* another name.
C11_Original ==
    [][ Ran("ensure") =>
          LET name == EnsuredName(last'.log)
          IN  /\ \A i \in 1..Len(last'.log) :
                    last'.log[i][1] = "add_worksheet" => name \notin DOMAIN sheets
              /\ name \in DOMAIN sheets => sheets' = sheets
              /\ name \notin DOMAIN sheets =>
                    /\ \A other \in DOMAIN sheets :
                          other \in DOMAIN sheets' /\ sheets'[other] = sheets[other]
                    /\ DOMAIN sheets' \subseteq DOMAIN sheets \cup {name}
                    /\ name \in DOMAIN sheets' => sheets'[name] = <<HeaderOf(name)>>
      ]_vars

\* C11 for the calls that return: a returning call for an absent worksheet leaves it
\* holding exactly the header, and one for an existing worksheet changes nothing
C11_ReturningCalls ==
    [][ (Ran("ensure") /\ last'.result = "ok") =>
          LET name == EnsuredName(last'.log)
          IN  /\ name \in DOMAIN sheets => sheets' = sheets
              /\ name \notin DOMAIN sheets =>
                    sheets' = WithSheet(sheets, name, <<HeaderOf(name)>>)
      ]_vars

\* a returning call found a worksheet holding its header and a data row
C11_ReturnedExisting ==
    /\ last.op = "ensure" /\ last.result = "ok"
    /\ Len(last.log) = 1
    /\ Len(sheets[EnsuredName(last.log)]) = 2
    /\ sheets[EnsuredName(last.log)][1] = HeaderOf(EnsuredName(last.log))

----------------------------------------------------------------------------
(* C12 *)

\* every sub-record of rec is a mapping or null: rec is a record of the requested
\* shape in which fields may be absent or null
ShapedUpToNull(r) ==
    \A q \in Paths(r) :
        IsDict(At(TEMPLATE, q)) => (IsDict(At(r, q)) \/ At(r, q) = None)

\* the fields of r that are explicitly null
NullPaths(r) == { p \in Paths(r) : At(r, p) = None }

\* the top-level parts and the groups below them, as opposed to leaves and to the
\* medication classes
PartOrGroup(p) ==
    \/ Len(p) = 1
    \/ Len(p) = 2 /\ IsDict(At(TEMPLATE, p))

\* C12: for a projected record whose fields may be absent or null, and every field
\* of it that is explicitly null (a top-level part, a group, a medication class or a
\* leaf), both row builders return, and they return the same rows for the record
\* with that field absent.
C12_Original ==
    (proj.done /\ ShapedUpToNull(rec)) =>
        \A p \in NullPaths(rec) :
            LET absent == DropAt(rec, p)
            IN  /\ proj.d.ok /\ proj.v.ok
                /\ build_doentes_row(proj.id, absent, today) = proj.d
                /\ build_visitas_row(proj.id, absent) = proj.v

\* C12 for leaves and medication classes: with such a field absent instead of null
\* both builders have the same outcome
C12_LeavesAndClasses ==
    proj.done =>
        \A p \in NullPaths(rec) :
            ~PartOrGroup(p) =>
                LET absent == DropAt(rec, p)
                IN  /\ build_doentes_row(proj.id, absent, today) = proj.d
                    /\ build_visitas_row(proj.id, absent) = proj.v

\* a record with a null medication class and null leaves was projected to rows
C12_NullClassProjected ==
    /\ proj.done /\ proj.d.ok /\ proj.v.ok
    /\ <<"doente", "medicacao", "mra">> \in NullPaths(rec)
    /\ <<"visita", "analises", "ureia">> \in NullPaths(rec)

----------------------------------------------------------------------------
(* C13 *)

\* C13: under any sequence of upserts on the provisioned patient-state table, with
\* any non-empty identifier, the first row of the table is its header row.
C13_Original == Len(table) >= 1 /\ table[1] = HEADERS_DOENTES

\* C13 for the identifiers that differ from the first header cell
C13_OtherIdentifiers ==
    (\A i \in 1..Len(hist) : hist[i][1] # HEADERS_DOENTES[1]) =>
        (Len(table) >= 1 /\ table[1] = HEADERS_DOENTES)

\* upserts of other identifiers added and replaced rows under the header
C13_HeaderKept ==
    /\ Len(hist) = MaxUpserts /\ Len(table) = 3
    /\ \A i \in 1..Len(hist) : hist[i][1] # HEADERS_DOENTES[1]
    /\ table[1] = HEADERS_DOENTES

====
